---------------------------- MODULE Spec2Model ----------------------------
(***************************************************************************)
(* A model of the logrus record lifecycle and dispatch pipeline:           *)
(* entry.go (Entry, WithFields, log and the Entry emission family),        *)
(* logger.go (Logger, MutexWrap, the entry pool, the Logger emission       *)
(* family) and exported.go (the default instance and its free functions).  *)
(* Level, LevelHooks, Formatter, io.Writer and Exit are declared in files  *)
(* that are not part of the sources at hand; they are modelled from their  *)
(* documented contracts and are marked as such where they are defined.     *)
(***************************************************************************)
EXTENDS Integers, Sequences, FiniteSets, TLC

(***************************************************************************)
(* Bounds of the model.                                                    *)
(***************************************************************************)
MaxOps == 2          \* operations started over a whole behaviour
StreamWindow == 2   \* chunks remembered of Logger.Out and of os.Stderr
MaxDepth == 2        \* largest depth argument handed to an Ex entry point

\* the goroutines calling into the one Logger
Threads == {1, 2}

(***************************************************************************)
(* Severity: Panic < Fatal < Error < Warn < Info < Debug.                  *)
(***************************************************************************)
PanicLevel == 0
FatalLevel == 1
ErrorLevel == 2
WarnLevel == 3
InfoLevel == 4
DebugLevel == 5
Levels == PanicLevel..DebugLevel

\* the key WithError attaches under (var ErrorKey)
ErrorKey == "error"

\* the zero value of time.Time, and the reading of time.Now().UTC()
ZeroTime == "0001-01-01T00:00:00Z"
NowUTC == "now"

(***************************************************************************)
(* Strings that the code takes apart are sequences of characters.          *)
(***************************************************************************)
\* strings.LastIndex(file, "/"), zero based; -1 when there is no "/"
RECURSIVE LastIndexFrom(_, _)
LastIndexFrom(file, i) ==
    IF i = 0 THEN -1
    ELSE IF file[i] = "/" THEN i - 1
    ELSE LastIndexFrom(file, i - 1)

LastIndex(file) == LastIndexFrom(file, Len(file))

\* the slice file[lo:], lo zero based
SliceFrom(file, lo) == SubSeq(file, lo + 1, Len(file))

\* fmt.Sprint(args...) on string operands: no space is added between strings
RECURSIVE Sprint(_)
Sprint(args) ==
    IF args = <<>> THEN "" ELSE Head(args) \o Sprint(Tail(args))

\* the operands fmt.Sprintf reports as unused: %!(EXTRA string=a, string=b)
RECURSIVE ExtraArgs(_)
ExtraArgs(args) ==
    IF Len(args) = 1 THEN "string=" \o Head(args)
    ELSE "string=" \o Head(args) \o ", " \o ExtraArgs(Tail(args))

\* fmt.Sprintf(format, args...): format is a sequence of pieces, the piece
\* "%s" being a verb that consumes the next operand
RECURSIVE Sprintf(_, _)
Sprintf(format, args) ==
    IF format = <<>>
      THEN IF args = <<>> THEN "" ELSE "%!(EXTRA " \o ExtraArgs(args) \o ")"
    ELSE IF Head(format) = "%s"
      THEN IF args = <<>>
             THEN "%!s(MISSING)" \o Sprintf(Tail(format), args)
             ELSE Head(args) \o Sprintf(Tail(format), Tail(args))
    ELSE Head(format) \o Sprintf(Tail(format), args)

(***************************************************************************)
(* Field maps (type Fields map[string]interface{}): functions from a       *)
(* finite set of keys.                                                     *)
(***************************************************************************)
EmptyFields == << >>

\* the two copy loops of Entry.WithFields: entry.Data first, fields second
MergeFieldsLeft(data, fields) ==
    [k \in (DOMAIN data) \cup (DOMAIN fields) |->
        IF k \in DOMAIN data THEN data[k] ELSE fields[k]]

MergeFields(data, fields) ==
    [k \in (DOMAIN data) \cup (DOMAIN fields) |->
        IF k \in DOMAIN fields THEN fields[k] ELSE data[k]]


(***************************************************************************)
(* The emission entry points.  An entry point is [recv, form, lvl]: recv   *)
(* is "Entry" (a method of *Entry), "Logger" (a method of *Logger) or      *)
(* "Std" (a free function on the default instance); form is "plain"        *)
(* (Debug), "Ex" (DebugEx), "f" (Debugf) or "Exf" (DebugExf).  The bodies  *)
(* are the same for the six severities but for what follows the guarded    *)
(* call.                                                                   *)
(***************************************************************************)
Recvs == {"Entry", "Logger", "Std"}
Forms == {"plain", "Ex", "f", "Exf"}
Fn(recv, form, lvl) == [recv |-> recv, form |-> form, lvl |-> lvl]
\* Entry.log, called with the severity of the entry point that calls it
LogFn(lvl) == [recv |-> "Entry", form |-> "log", lvl |-> lvl]

\* if entry.Logger.Level >= DebugLevel { ... }
IsEnabledOff(threshold, lvl) == threshold > lvl

IsEnabled(threshold, lvl) == threshold >= lvl

\* the free functions forward without a guard of their own
Gated(fn) == fn.recv \in {"Entry", "Logger"}

\* the function an entry point calls inside its guard
Callee(fn) ==
    CASE fn.recv = "Entry" /\ fn.form \in {"plain", "Ex"} -> LogFn(fn.lvl)
      [] fn.recv = "Entry" /\ fn.form \in {"f", "Exf"} -> Fn("Entry", "Ex", fn.lvl)
      [] fn.recv = "Logger" /\ fn.form \in {"plain", "Ex"} -> Fn("Entry", "Ex", fn.lvl)
      [] fn.recv = "Logger" /\ fn.form \in {"f", "Exf"} -> Fn("Entry", "Exf", fn.lvl)
      [] fn.recv = "Std" /\ fn.form \in {"plain", "Ex"} -> Fn("Logger", "Ex", fn.lvl)
      [] fn.recv = "Std" /\ fn.form \in {"f", "Exf"} -> Fn("Logger", "Exf", fn.lvl)

\* the depth an entry point hands to its callee
CalleeDepth(fn, depth) ==
    CASE fn.recv = "Entry" /\ fn.form = "plain" -> 0
      [] fn.recv = "Entry" /\ fn.form = "Ex" -> depth
      [] fn.form \in {"plain", "f"} -> 1
      [] OTHER -> depth + 1

\* the operands an entry point hands on: Entry.Debugf and Entry.DebugExf
\* format eagerly, the others pass format and args through
CalleeArgs(fn, format, args) ==
    IF fn.recv = "Entry" /\ fn.form \in {"f", "Exf"}
      THEN <<Sprintf(format, args)>>
      ELSE args

\* Logger entry points work on a pooled Entry
TakesPooled(fn) == fn.recv = "Logger"

\* Exit(1) follows the guard only when the guard passed
ExitsAfterGuarded(fn, passed) ==
    fn.lvl = FatalLevel /\ fn.recv \in {"Entry", "Logger"} /\ passed

\* Exit(1) follows the guard, whether or not it passed
ExitsAfter(fn, passed) ==
    fn.lvl = FatalLevel /\ fn.recv \in {"Entry", "Logger"}

\* panic(fmt.Sprint(args...)) follows the guard in Entry.Panic and
\* Entry.PanicEx, and in no other entry point
PanicsAfter(fn) ==
    fn.lvl = PanicLevel /\ fn.recv = "Entry" /\ fn.form \in {"plain", "Ex"}

\* the source position of a library frame, as runtime.Caller would give it
LibFile(fn) ==
    CASE fn.recv = "Entry" -> <<"logrus", "/", "entry.go">>
      [] fn.recv = "Logger" -> <<"logrus", "/", "logger.go">>
      [] fn.recv = "Std" -> <<"logrus", "/", "exported.go">>

LibLoc(fn) == [file |-> LibFile(fn), line |-> 0]

\* runtime.Caller(2 + depth) with one frame too few skipped
CallerSkipShort(depth) == 1 + depth

\* the number of frames Entry.log skips
CallerSkip(depth) == 2 + depth

\* runtime.Caller(skip) on a stack of source positions whose last element
\* is the frame of the function calling runtime.Caller
RuntimeCaller(locs, skip) ==
    IF skip < Len(locs)
      THEN [ok |-> TRUE, file |-> locs[Len(locs) - skip].file,
            line |-> locs[Len(locs) - skip].line, idx |-> Len(locs) - skip]
      ELSE [ok |-> FALSE, file |-> <<>>, line |-> 0, idx |-> 0]


(***************************************************************************)
(* State.                                                                  *)
(***************************************************************************)
VARIABLES
    plan,         \* what each goroutine of the program may still do
    Level,        \* Logger.Level, the threshold
    Hooks,        \* Logger.Hooks: severity -> the hooks registered, in order
    mu,           \* Logger.mu: [locked, disabled, fault], the goroutine that took
                  \* it, and the goroutines waiting inside its Lock
    entryPool,    \* Logger.entryPool: addresses of the pooled Entry objects
    bufferPool,   \* bufferPool: the pooled buffers
    nbuf,         \* number of buffers allocated so far
    ent,          \* every live Entry struct, by address
    maps,         \* every Fields map allocated so far, by map id
    records,      \* addresses of the Entry objects callers hold
    Out,          \* what Logger.Out has received, chunk by chunk
    diag,         \* what os.Stderr has received
    th,           \* what each goroutine is doing
    nops,         \* operations started so far
    alive,        \* FALSE once the process has exited
    made          \* how each Entry the program holds came to be

vars == <<plan, Level, Hooks, mu, entryPool, bufferPool, nbuf, ent, maps, records,
          Out, diag, th, nops, alive, made>>

\* An Entry struct; Data is a map id (maps are reference values), Buffer a
\* buffer id, 0 being nil.  Logger is left out: there is one Logger.
EntryStruct(data) ==
    [Data |-> data, Time |-> ZeroTime, Level |-> PanicLevel, Message |-> "",
     FileName |-> <<>>, Line |-> 0, Buffer |-> 0]

\* addresses: a heap object is a positive number, the parameter slot of
\* goroutine t's running Entry.log is -t
HeapAddrs == {a \in DOMAIN ent : a > 0}
StackSlot(t) == 0 - t

\* what a goroutine has observed of the call it is in
NoObs ==
    [minT |-> DebugLevel, maxT |-> PanicLevel, fires |-> 0, ran |-> <<>>,
     formats |-> 0, writes |-> 0, exits |-> <<>>, exitEarly |-> FALSE,
     hookErr |-> FALSE, fmtErr |-> FALSE, diags |-> <<>>,
     caller |-> [ok |-> FALSE, file |-> <<>>, line |-> 0, idx |-> 0],
     resolved |-> FALSE, logged |-> FALSE, taken |-> {},
     raised |-> [kind |-> "none", msg |-> "", entry |-> EntryStruct(0)]]

NoCall ==
    [fn |-> Fn("Std", "plain", PanicLevel), depth |-> 0, format |-> <<>>,
     args |-> <<>>, rcv |-> 0, ustack |-> <<>>]

IdleThread ==
    [pc |-> "idle", call |-> NoCall, stack |-> <<>>, me |-> 0, hooks |-> <<>>,
     hi |-> 0, buffer |-> 0, serialized |-> <<>>, held |-> 0, arg |-> <<>>,
     obs |-> NoObs]

\* a frame of an entry point or of Entry.log
Frame(fn, depth, format, args, self) ==
    [fn |-> fn, depth |-> depth, format |-> format, args |-> args,
     self |-> self, passed |-> FALSE, pooled |-> 0]

Top(t) == th[t].stack[Len(th[t].stack)]
Pop(stack) == SubSeq(stack, 1, Len(stack) - 1)
SetTop(stack, f) == [stack EXCEPT ![Len(stack)] = f]

(***************************************************************************)
(* MutexWrap.                                                              *)
(***************************************************************************)
\* a Lock that never takes the mutex
MuLockSkip(t) == mu' = mu

\* func (mw *MutexWrap) Lock(): blocks while the mutex is taken; a
\* goroutine that has read disabled as false and waits inside lock.Lock()
\* does not read it again
MuLock(t) ==
    IF t \in mu.waiters
      THEN ~mu.locked /\ mu' = [mu EXCEPT !.locked = TRUE, !.owner = t,
                                          !.waiters = @ \ {t}]
      ELSE IF mu.disabled
        THEN mu' = mu
        ELSE ~mu.locked /\ mu' = [mu EXCEPT !.locked = TRUE, !.owner = t]

\* an Unlock that leaves the mutex taken
MuUnlockKeep(t) == mu' = mu

\* func (mw *MutexWrap) Unlock(): unlocking a mutex that is not locked is a
\* fatal error of the runtime
MuUnlock(t) ==
    IF mu.disabled
      THEN mu' = mu
      ELSE mu' = [mu EXCEPT !.locked = FALSE, !.owner = 0,
                            !.fault = @ \/ ~mu.locked]


(***************************************************************************)
(* The callers.                                                            *)
(***************************************************************************)
\* source positions of the calling program: the goroutine's base frame,
\* main, which calls a wrapper or an entry point, and the wrapper, which
\* calls an entry point.  A file is its path, a run of characters other
\* than "/" standing as one symbol.  The base frame is a wrapper method
\* the compiler generated: the runtime reports its file as
\* "<autogenerated>", a path without "/".
BaseLoc == [file |-> <<"<autogenerated>">>, line |-> 1]
MainLoc == [file |-> <<"app", "/", "main.go">>, line |-> 10]
WrapLoc == [file |-> <<"app", "/", "util", "/", "wrap.go">>, line |-> 20]
UserStacks == {<<BaseLoc, MainLoc>>, <<BaseLoc, MainLoc, WrapLoc>>}

\* operands of a call: a format (used by the f forms) and the args
MsgInputs ==
    {[format |-> <<"x=", "%s">>, args |-> <<"1">>],
     [format |-> <<"%s">>, args |-> <<"a", "b">>]}

Depths(form) == IF form \in {"Ex", "Exf"} THEN 0..MaxDepth ELSE {0}

CallDesc(fn, depth, m, ustack) ==
    [fn |-> fn, depth |-> depth, format |-> m.format, args |-> m.args,
     rcv |-> 0, ustack |-> ustack]

\* every entry point, at every severity and depth
WideCalls ==
    {CallDesc(Fn(r, f, l), d, m, u) :
        r \in Recvs, f \in Forms, l \in Levels, d \in 0..MaxDepth,
        m \in MsgInputs, u \in UserStacks}

AllCalls == {c \in WideCalls : c.depth \in Depths(c.fn.form)}

\* the message the call is to log: fmt.Sprint of the operands, fmt.Sprintf
\* for the f forms
CallMessage(c) ==
    IF c.fn.form \in {"f", "Exf"}
      THEN Sprintf(c.format, c.args) ELSE Sprint(c.args)

(***************************************************************************)
(* Hooks (hooks.go is not among the sources; modelled from the contract    *)
(* of the Hook Registry).  A hook is [kind, levels]: kind says what its    *)
(* Fire does, "ok" returns nil, "fail" returns an error, "add" sets a      *)
(* field of the Entry it is given and returns nil, "log" logs a record     *)
(* through the Logger and returns nil.                                     *)
(***************************************************************************)
HookKey == "hook"
HookVal == "seen"

\* LevelHooks.Add: append the hook to the sequence of each of its levels
HooksAdd(hs, hook) ==
    [l \in Levels |-> IF l \in hook.levels THEN Append(hs[l], hook.kind) ELSE hs[l]]

NoHooks == [l \in Levels |-> <<>>]

RECURSIVE Registered(_)
Registered(hooks) ==
    IF hooks = <<>> THEN NoHooks
    ELSE HooksAdd(Registered(SubSeq(hooks, 1, Len(hooks) - 1)), hooks[Len(hooks)])

(***************************************************************************)
(* Starting an emission call.                                              *)
(***************************************************************************)
Idle(t) == alive /\ th[t].pc = "idle" /\ nops < MaxOps /\ plan[t].ops > 0
Started(t) == nops' = nops + 1 /\ plan' = [plan EXCEPT ![t].ops = @ - 1]
At(t, pc) == alive /\ th[t].pc = pc

\* goroutine t calls an entry point; an Entry method is called on an Entry
\* the program holds
Call(t) ==
    /\ Idle(t)
    /\ \E c \in plan[t].calls, r \in records \cup {0} :
          /\ (c.fn.recv = "Entry") = (r # 0)
          /\ th' = [th EXCEPT ![t] =
                [IdleThread EXCEPT
                    !.pc = "gate",
                    !.call = [c EXCEPT !.rcv = r],
                    !.stack = <<Frame(c.fn, c.depth, c.format, c.args, r)>>,
                    !.obs = [NoObs EXCEPT !.minT = Level, !.maxT = Level]]]
    /\ Started(t)
    /\ UNCHANGED <<Level, Hooks, mu, entryPool, bufferPool, nbuf, ent,
                   maps, records, Out, diag, alive, made>>

\* func NewEntry(logger *Logger) *Entry
NewEntry(a) == a :> EntryStruct(Len(maps) + 1)

\* a pool that gives an Entry out and keeps it
PoolGetKeep(e) ==
    /\ e \in entryPool \/ e = Cardinality(HeapAddrs) + 1
    /\ ent' = IF e \in entryPool THEN ent ELSE NewEntry(e) @@ ent
    /\ maps' = IF e \in entryPool THEN maps ELSE Append(maps, EmptyFields)
    /\ entryPool' = entryPool \cup {e}

\* Logger.newEntry: an Entry of the pool, or a new one when the pool gives
\* none (a sync.Pool may give none even after a Put)
PoolGet(e) ==
    \/ /\ e \in entryPool
       /\ entryPool' = entryPool \ {e}
       /\ UNCHANGED <<ent, maps>>
    \/ /\ e = Cardinality(HeapAddrs) + 1
       /\ ent' = NewEntry(e) @@ ent
       /\ maps' = Append(maps, EmptyFields)
       /\ UNCHANGED entryPool

\* the guard of an entry point and, when it passes, the call inside it
FnEnter(t) ==
    /\ At(t, "gate")
    /\ LET f == Top(t)
           passed == Gated(f.fn) => IsEnabled(Level, f.fn.lvl)
           g == Callee(f.fn)
       IN  IF ~passed
             THEN /\ th' = [th EXCEPT ![t].pc = "after"]
                  /\ UNCHANGED <<entryPool, ent, maps>>
             ELSE \E e \in entryPool \cup {Cardinality(HeapAddrs) + 1, 0} :
                    /\ IF TakesPooled(f.fn)
                         THEN e # 0 /\ PoolGet(e)
                         ELSE e = 0 /\ UNCHANGED <<entryPool, ent, maps>>
                    /\ th' = [th EXCEPT
                          ![t].pc = IF g.form = "log" THEN "log" ELSE "gate",
                          ![t].obs.taken = IF TakesPooled(f.fn) THEN @ \cup {e} ELSE @,
                          ![t].stack =
                              Append(SetTop(@, [f EXCEPT !.passed = TRUE, !.pooled = e]),
                                     Frame(g, CalleeDepth(f.fn, f.depth), f.format,
                                           CalleeArgs(f.fn, f.format, f.args),
                                           IF TakesPooled(f.fn) THEN e ELSE f.self))]
    /\ UNCHANGED <<plan, Level, Hooks, mu, bufferPool, nbuf, records, Out,
                   diag, nops, alive, made>>


(***************************************************************************)
(* Entry.log.                                                              *)
(***************************************************************************)
\* a stream is kept as the last chunks it received
Received(stream, chunk) ==
    IF Len(stream) < StreamWindow
      THEN Append(stream, chunk) ELSE Append(Tail(stream), chunk)

\* a pointer receiver: log works on the caller's Entry itself
ReceiverShared(t, r) == r

\* func (entry Entry) log: the receiver is a copy of the caller's Entry,
\* held in the goroutine's own frame
Receiver(t, r) == StackSlot(t)

\* the source positions of goroutine t's frames, outermost first
Locs(t) ==
    th[t].call.ustack \o [i \in 1..Len(th[t].stack) |-> LibLoc(th[t].stack[i].fn)]

\* entry.FileName and entry.Line after the caller has been looked up
Located(e, c) ==
    IF ~c.ok
      THEN [e EXCEPT !.FileName = <<"???">>, !.Line = 1]
      ELSE [e EXCEPT
              !.FileName = IF LastIndex(c.file) >= 0
                             THEN SliceFrom(c.file, LastIndex(c.file) + 1) ELSE @,
              !.Line = c.line]

\* lines 98-114: copy the receiver, stamp it, look the caller up
LogStamp(t) ==
    /\ At(t, "log")
    /\ LET f == Top(t)
           a == Receiver(t, f.self)
           c == RuntimeCaller(Locs(t), CallerSkip(f.depth))
           e == [ent[f.self] EXCEPT !.Time = NowUTC, !.Level = f.fn.lvl,
                                    !.Message = Sprint(f.args)]
       IN  /\ ent' = (a :> Located(e, c)) @@ ent
           /\ th' = [th EXCEPT ![t].pc = "fire", ![t].me = a,
                               ![t].hooks = Hooks[f.fn.lvl], ![t].hi = 1,
                               ![t].obs.caller = c, ![t].obs.resolved = TRUE]
    /\ UNCHANGED <<plan, Level, Hooks, mu, entryPool, bufferPool, nbuf, maps,
                   records, Out, diag, nops, alive, made>>

\* LevelHooks.Fire returns at the first hook that returns an error
FireStops(kind) == kind = "fail"

\* line 117, one hook at a time: the hooks of the severity in registration
\* order; the hook is given &entry and may set a field of entry.Data
FireHook(t) ==
    /\ At(t, "fire")
    /\ LET hs == th[t].hooks
           i == th[t].hi
       IN  IF i > Len(hs)
             THEN /\ th' = [th EXCEPT ![t].pc = IF th[t].obs.hookErr THEN "hd_lock" ELSE "getbuf",
                                      ![t].obs.fires = @ + 1]
                  /\ UNCHANGED maps
             ELSE /\ th' = [th EXCEPT
                       ![t].pc = IF hs[i] = "log" THEN "hk_lock" ELSE "fire",
                       ![t].hi = IF FireStops(hs[i]) THEN Len(hs) + 1 ELSE i + 1,
                       ![t].obs.ran = Append(@, i),
                       ![t].obs.hookErr = @ \/ hs[i] = "fail"]
                  /\ maps' = IF hs[i] = "add"
                               THEN [maps EXCEPT ![ent[th[t].me].Data] =
                                       (HookKey :> HookVal) @@ @]
                               ELSE maps
    /\ UNCHANGED <<plan, Level, Hooks, mu, entryPool, bufferPool, nbuf, ent,
                   records, Out, diag, nops, alive, made>>

\* a hook of kind "log" logs through the Logger it is fired by, at a
\* severity that is enabled and has no hooks: the inner log's Lock
HookLogLock(t) ==
    /\ At(t, "hk_lock")
    /\ MuLock(t)
    /\ th' = [th EXCEPT ![t].pc = "hk_write"]
    /\ UNCHANGED <<plan, Level, Hooks, entryPool, bufferPool, nbuf, ent, maps,
                   records, Out, diag, nops, alive, made>>

\* the inner log's Write and Unlock; the hook then returns nil
HookLogWrite(t) ==
    /\ At(t, "hk_write")
    /\ Out' = Received(Out, [by |-> t, bytes |-> [part |-> "hook"],
                             lvl |-> Level, msg |-> HookVal])
    /\ MuUnlock(t)
    /\ th' = [th EXCEPT ![t].pc = "fire"]
    /\ UNCHANGED <<plan, Level, Hooks, entryPool, bufferPool, nbuf, ent, maps,
                   records, diag, nops, alive, made>>

\* line 118 / 129 / 133, when the mutex is taken: Lock has read disabled
\* as false and the goroutine now waits inside lock.Lock()
LogLockWait(t) ==
    /\ alive /\ th[t].pc \in {"hd_lock", "fd_lock", "out_lock"}
    /\ t \notin mu.waiters /\ ~mu.disabled /\ mu.locked
    /\ mu' = [mu EXCEPT !.waiters = @ \cup {t}]
    /\ UNCHANGED <<plan, Level, Hooks, entryPool, bufferPool, nbuf, ent, maps,
                   records, Out, diag, th, nops, alive, made>>

\* line 118 / 129 / 133: entry.Logger.mu.Lock()
LogLock(t) ==
    /\ alive /\ th[t].pc \in {"hd_lock", "fd_lock", "out_lock"}
    /\ MuLock(t)
    /\ th' = [th EXCEPT ![t].pc = CASE th[t].pc = "hd_lock" -> "hd_write"
                                    [] th[t].pc = "fd_lock" -> "fd_write"
                                    [] th[t].pc = "out_lock" -> "out_write"]
    /\ UNCHANGED <<plan, Level, Hooks, entryPool, bufferPool, nbuf, ent, maps,
                   records, Out, diag, nops, alive, made>>

\* a log that gives up once it has reported the failure of a hook
AfterHookDiagReturn == "log_ret"

\* where log goes on once it has reported the failure of a hook: to the
\* buffer and the Formatter
AfterHookDiag == "getbuf"

\* a log that forgets the Unlock after a diagnostic
DiagUnlockNone(t) == mu' = mu

\* lines 120 and 131: entry.Logger.mu.Unlock()
DiagUnlock(t) == MuUnlock(t)

\* lines 119-120 and 130-131: the diagnostic goes to os.Stderr, then Unlock
DiagWrite(t) ==
    /\ alive /\ th[t].pc \in {"hd_write", "fd_write"}
    /\ LET kind == IF th[t].pc = "hd_write" THEN "hook" ELSE "format"
       IN  /\ diag' = Received(diag, [by |-> t, kind |-> kind])
           /\ th' = [th EXCEPT ![t].pc = IF kind = "hook" THEN AfterHookDiag ELSE "log_ret",
                               ![t].obs.diags = Append(@, kind)]
    /\ DiagUnlock(t)
    /\ UNCHANGED <<plan, Level, Hooks, entryPool, bufferPool, nbuf, ent, maps,
                   records, Out, nops, alive, made>>

\* a pool whose Get hands a buffer out and keeps it
TakeBufferKeep(pool, b) == pool

\* line 122: bufferPool.Get() takes the buffer out of the pool
TakeBuffer(pool, b) == pool \ {b}

\* lines 122-125: a buffer of the pool, or a new one, is reset and attached
LogGetBuffer(t) ==
    /\ At(t, "getbuf")
    /\ \E b \in bufferPool \cup {nbuf + 1} :
          /\ bufferPool' = TakeBuffer(bufferPool, b)
          /\ nbuf' = IF b \in bufferPool THEN nbuf ELSE nbuf + 1
          /\ ent' = [ent EXCEPT ![th[t].me].Buffer = b]
          /\ th' = [th EXCEPT ![t].pc = "format", ![t].buffer = b]
    /\ UNCHANGED <<plan, Level, Hooks, mu, entryPool, maps, records, Out,
                   diag, nops, alive, made>>

\* what a Formatter makes of an Entry: the bytes, in two parts
Render(e) ==
    <<[part |-> "head", level |-> e.Level, msg |-> e.Message, time |-> e.Time],
      [part |-> "tail", data |-> maps[e.Data], file |-> e.FileName, line |-> e.Line]>>

\* a log that reports the Formatter's error without taking the lock
AfterFormatUnlocked(ok) == IF ok THEN "out_lock" ELSE "fd_write"

\* lines 128-133: both branches of the Formatter's error check begin with
\* entry.Logger.mu.Lock()
AfterFormat(ok) == IF ok THEN "out_lock" ELSE "fd_lock"

\* lines 126-127: Format(&entry) gives the bytes or an error; entry.Buffer
\* is cleared
LogFormat(t) ==
    /\ At(t, "format")
    /\ \E ok \in BOOLEAN :
          th' = [th EXCEPT
                   ![t].pc = AfterFormat(ok),
                   ![t].serialized = IF ok THEN Render(ent[th[t].me]) ELSE <<>>,
                   ![t].obs.formats = @ + 1,
                   ![t].obs.fmtErr = ~ok]
    /\ ent' = [ent EXCEPT ![th[t].me].Buffer = 0]
    /\ UNCHANGED <<plan, Level, Hooks, mu, entryPool, bufferPool, nbuf, maps,
                   records, Out, diag, nops, alive, made>>


\* line 134, first part: Write has put the head of the bytes out
OutWriteBegin(t) ==
    /\ At(t, "out_write")
    /\ Out' = Received(Out, [by |-> t, bytes |-> th[t].serialized[1],
                             lvl |-> th[t].call.fn.lvl,
                             msg |-> CallMessage(th[t].call)])
    /\ th' = [th EXCEPT ![t].pc = "out_write2", ![t].obs.writes = @ + 1]
    /\ UNCHANGED <<plan, Level, Hooks, mu, entryPool, bufferPool, nbuf, ent,
                   maps, records, diag, nops, alive, made>>

\* a log that goes back to write the bytes once more
AfterWriteAgain == "out_write"

\* line 138: after the write and the Unlock log is at its end
AfterWrite == "log_ret"

\* lines 134-138, the rest: Write puts the tail out, or returns an error,
\* which is reported to os.Stderr; then Unlock
OutWriteEnd(t) ==
    /\ At(t, "out_write2")
    /\ \E ok \in BOOLEAN :
          IF ok
            THEN /\ Out' = Received(Out, [by |-> t, bytes |-> th[t].serialized[2],
                                          lvl |-> th[t].call.fn.lvl,
                                          msg |-> CallMessage(th[t].call)])
                 /\ th' = [th EXCEPT ![t].pc = AfterWrite]
                 /\ UNCHANGED diag
            ELSE /\ diag' = Received(diag, [by |-> t, kind |-> "write"])
                 /\ th' = [th EXCEPT ![t].pc = AfterWrite,
                                     ![t].obs.diags = Append(@, "write")]
                 /\ UNCHANGED Out
    /\ MuUnlock(t)
    /\ UNCHANGED <<plan, Level, Hooks, entryPool, bufferPool, nbuf, ent, maps,
                   records, nops, alive, made>>


\* the pops of a stack being unwound by a panic: no entry point recovers
Unwound(stack) == <<>>

\* what Exit is called with
ExitCode == 1

\* a log that raises at Fatal severity too
PanicsInLogFatal(level) == level <= FatalLevel

\* a log that lets the most severe level through
PanicsInLogNever(level) == level < PanicLevel

\* if level <= PanicLevel { panic(&entry) }
PanicsInLog(level) == level <= PanicLevel

\* a log that drops the buffer
PutBufferLeak(pool, b) == pool

\* line 124: defer bufferPool.Put(buffer)
PutBuffer(pool, b) == pool \cup {b}

\* lines 124 and 144-146: the deferred Put returns the buffer; at Panic
\* severity log panics with &entry, otherwise it returns to its caller
LogReturn(t) ==
    /\ At(t, "log_ret")
    /\ bufferPool' = PutBuffer(bufferPool, th[t].buffer)
    /\ ent' = [a \in DOMAIN ent \ {StackSlot(t)} |-> ent[a]]
    /\ IF PanicsInLog(Top(t).fn.lvl)
         THEN th' = [th EXCEPT
                 ![t].pc = "raised", ![t].stack = Unwound(@), ![t].buffer = 0,
                 ![t].me = 0, ![t].serialized = <<>>, ![t].hooks = <<>>, ![t].hi = 0,
                 ![t].obs.logged = TRUE,
                 ![t].obs.raised = [kind |-> "entry", msg |-> "", entry |-> ent[th[t].me]]]
         ELSE th' = [th EXCEPT
                 ![t].pc = "after", ![t].stack = Pop(@), ![t].buffer = 0,
                 ![t].me = 0, ![t].serialized = <<>>, ![t].hooks = <<>>, ![t].hi = 0,
                 ![t].obs.logged = TRUE]
    /\ UNCHANGED <<plan, Level, Hooks, mu, entryPool, nbuf, maps, records, Out,
                   diag, nops, alive, made>>

\* what follows the guard of an entry point: Logger.releaseEntry inside the
\* guard, then Exit(1) (the Fatal family), panic(fmt.Sprint(args...))
\* (Entry.Panic, Entry.PanicEx) or the return
FnLeave(t) ==
    /\ At(t, "after")
    /\ LET f == Top(t)
       IN  /\ entryPool' = IF TakesPooled(f.fn) /\ f.passed
                             THEN entryPool \cup {f.pooled} ELSE entryPool
           /\ th' = [th EXCEPT
                 ![t].pc = IF ExitsAfter(f.fn, f.passed) THEN "exit"
                           ELSE IF PanicsAfter(f.fn) THEN "raised"
                           ELSE IF Len(th[t].stack) = 1 THEN "done" ELSE "after",
                 ![t].stack = IF ExitsAfter(f.fn, f.passed)
                                THEN SetTop(@, [f EXCEPT !.pooled = 0])
                              ELSE IF PanicsAfter(f.fn) THEN Unwound(@)
                              ELSE Pop(@),
                 ![t].obs.raised =
                     IF ~ExitsAfter(f.fn, f.passed) /\ PanicsAfter(f.fn)
                       THEN [kind |-> "msg", msg |-> Sprint(f.args),
                             entry |-> EntryStruct(0)]
                       ELSE @]
    /\ UNCHANGED <<plan, Level, Hooks, mu, bufferPool, nbuf, ent, maps,
                   records, Out, diag, nops, alive, made>>

\* Exit(1) (alt_exit.go is not among the sources): the Termination Policy
\* ends the process, or, intercepted by a test, returns
ExitCall(t) ==
    /\ At(t, "exit")
    /\ \E ends \in BOOLEAN :
          /\ alive' = ~ends
          /\ th' = [th EXCEPT
                ![t].pc = IF ends THEN "exited"
                          ELSE IF Len(th[t].stack) = 1 THEN "done" ELSE "after",
                ![t].stack = IF ends THEN @ ELSE Pop(@),
                ![t].obs.exits = Append(@, ExitCode),
                ![t].obs.exitEarly = @ \/ (th[t].obs.resolved /\ ~th[t].obs.logged)]
    /\ UNCHANGED <<plan, Level, Hooks, mu, entryPool, bufferPool, nbuf, ent,
                   maps, records, Out, diag, nops, made>>

\* the call is over: it has returned, or the signal it raised has been
\* recovered by the caller, or has ended the process
Finish(t) ==
    /\ alive /\ th[t].pc \in {"done", "raised"}
    /\ \E ends \in BOOLEAN :
          /\ ends => th[t].pc = "raised"
          /\ alive' = ~ends
          /\ th' = IF ends THEN th ELSE [th EXCEPT ![t] = IdleThread]
    /\ UNCHANGED <<plan, Level, Hooks, mu, entryPool, bufferPool, nbuf, ent,
                   maps, records, Out, diag, nops, made>>


(***************************************************************************)
(* Field attachment.                                                       *)
(***************************************************************************)
\* what the program attaches: api is "WithFields" (a map), "WithField"
\* (a key and a value) or "WithError" (an error value)
Attachment(api, key, value, fields) ==
    [api |-> api, key |-> key, value |-> value, fields |-> fields]

Attachments ==
    {Attachment("WithFields", "", 0, ("a" :> 1)),
     Attachment("WithFields", "", 0, ("a" :> 1) @@ ("b" :> 2)),
     Attachment("WithField", "a", 2, EmptyFields),
     Attachment("WithField", "c", 3, EmptyFields),
     Attachment("WithError", "", "boom", EmptyFields)}

\* WithError(err) is WithField(ErrorKey, err); WithField(key, value) is
\* WithFields(Fields{key: value})
AttachedFields(x) ==
    CASE x.api = "WithFields" -> x.fields
      [] x.api = "WithField" -> (x.key :> x.value)
      [] x.api = "WithError" -> (ErrorKey :> x.value)

\* an attachment that writes into the receiver's own map and hands it on
WithFieldsInPlace(ms, data, fields) ==
    [maps |-> [ms EXCEPT ![data] = MergeFields(@, fields)], data |-> data]

\* func (entry *Entry) WithFields(fields Fields) *Entry: a new map takes the
\* receiver's entries, then the given ones; the result is the maps there
\* are afterwards and the map id of the new Entry
WithFields(ms, data, fields) ==
    [maps |-> Append(ms, MergeFields(ms[data], fields)), data |-> Len(ms) + 1]

NewAddr == Cardinality(HeapAddrs) + 1

\* entry.WithFields / entry.WithField / entry.WithError on an Entry the
\* program holds
EntryAttach(t) ==
    /\ Idle(t)
    /\ \E r \in records, x \in plan[t].attachments :
          LET w == WithFields(maps, ent[r].Data, AttachedFields(x))
          IN  /\ maps' = w.maps
              /\ ent' = (NewAddr :> EntryStruct(w.data)) @@ ent
              /\ made' = (NewAddr :> [from |-> r, root |-> made[r].root,
                                      chain |-> Append(made[r].chain, AttachedFields(x))])
                         @@ made
    /\ records' = records \cup {NewAddr}
    /\ Started(t)
    /\ UNCHANGED <<Level, Hooks, mu, entryPool, bufferPool, nbuf, Out,
                   diag, th, alive>>

\* Logger.WithFields / WithField / WithError and their free-function
\* mirrors, first half: entry := logger.newEntry()
LoggerAttachBegin(t) ==
    /\ Idle(t)
    /\ \E x \in plan[t].attachments, e \in entryPool \cup {NewAddr} :
          /\ PoolGet(e)
          /\ th' = [th EXCEPT ![t].pc = "attach", ![t].held = e, ![t].arg = x]
    /\ Started(t)
    /\ UNCHANGED <<Level, Hooks, mu, bufferPool, nbuf, records, Out,
                   diag, alive, made>>

\* second half: return entry.WithFields(fields), with the deferred
\* logger.releaseEntry(entry)
LoggerAttachEnd(t) ==
    /\ At(t, "attach")
    /\ LET e == th[t].held
           w == WithFields(maps, ent[e].Data, AttachedFields(th[t].arg))
       IN  /\ maps' = w.maps
           /\ ent' = (NewAddr :> EntryStruct(w.data)) @@ ent
           /\ made' = (NewAddr :> [from |-> e, root |-> e,
                                   chain |-> <<AttachedFields(th[t].arg)>>]) @@ made
           /\ entryPool' = entryPool \cup {e}
    /\ records' = records \cup {NewAddr}
    /\ th' = [th EXCEPT ![t] = IdleThread]
    /\ UNCHANGED <<plan, Level, Hooks, mu, bufferPool, nbuf, Out, diag, nops,
                   alive>>

(***************************************************************************)
(* Configuration.                                                          *)
(***************************************************************************)
\* SetLevel(level), first half: std.mu.Lock()
SetLevelLock(t) ==
    /\ Idle(t)
    /\ \E l \in plan[t].levels :
          th' = [th EXCEPT ![t].pc = "set", ![t].arg = l]
    /\ MuLock(t)
    /\ Started(t)
    /\ UNCHANGED <<Level, Hooks, entryPool, bufferPool, nbuf, ent, maps,
                   records, Out, diag, alive, made>>

\* the calls under way see the threshold change
Seen(o, l) ==
    [o EXCEPT !.minT = IF l < @ THEN l ELSE @, !.maxT = IF l > @ THEN l ELSE @]

\* second half: std.Level = level, and the deferred std.mu.Unlock()
SetLevelStore(t) ==
    /\ At(t, "set")
    /\ Level' = th[t].arg
    /\ th' = [u \in Threads |->
                IF u = t THEN IdleThread
                ELSE IF th[u].pc = "idle" THEN th[u]
                ELSE [th[u] EXCEPT !.obs = Seen(@, th[t].arg)]]
    /\ MuUnlock(t)
    /\ UNCHANGED <<plan, Hooks, entryPool, bufferPool, nbuf, ent, maps,
                   records, Out, diag, nops, alive, made>>

\* func (logger *Logger) SetNoLock()
SetNoLock(t) ==
    /\ Idle(t)
    /\ plan[t].nolock
    /\ ~mu.disabled
    /\ mu' = [mu EXCEPT !.disabled = TRUE]
    /\ Started(t)
    /\ UNCHANGED <<Level, Hooks, entryPool, bufferPool, nbuf, ent, maps,
                   records, Out, diag, th, alive, made>>

\* func (logger *Logger) SetNoLock(), called by a goroutine that does not
\* log itself (the one that built the logger) while the others are logging
SetNoLockMain ==
    /\ alive
    /\ ~mu.disabled
    /\ mu' = [mu EXCEPT !.disabled = TRUE]
    /\ UNCHANGED <<plan, Level, Hooks, entryPool, bufferPool, nbuf, ent, maps,
                   records, Out, diag, th, nops, alive, made>>


(***************************************************************************)
(* The specifications.                                                     *)
(***************************************************************************)
\* the state after New(), after the program has made an Entry of its own
\* with NewEntry(logger), and after the setup it has made of its Logger: a
\* threshold and hooks
InitLogger ==
    /\ mu = [locked |-> FALSE, disabled |-> FALSE, fault |-> FALSE, owner |-> 0,
             waiters |-> {}]
    /\ entryPool = {}
    /\ bufferPool = {}
    /\ nbuf = 0
    /\ ent = (1 :> EntryStruct(1))
    /\ maps = <<EmptyFields>>
    /\ records = {1}
    /\ Out = << >>
    /\ diag = << >>
    /\ th = [t \in Threads |-> IdleThread]
    /\ nops = 0
    /\ alive = TRUE
    /\ made = (1 :> [from |-> 0, root |-> 1, chain |-> <<>>])

\* what a goroutine may do: the emission calls, the attachments, the
\* levels it sets, whether it disables the lock, and how many operations
Plan(calls, attachments, levels, nolock, ops) ==
    [calls |-> calls, attachments |-> attachments, levels |-> levels,
     nolock |-> nolock, ops |-> ops]

NoPlan == Plan({}, {}, {}, FALSE, 0)

Msg1 == [format |-> <<"x=", "%s">>, args |-> <<"1">>]
Msg2 == [format |-> <<"%s">>, args |-> <<"a", "b">>]

\* goroutines logging side by side through one Logger, some through an
\* Entry they share
NarrowCalls ==
    {CallDesc(Fn("Entry", "plain", InfoLevel), 0, Msg2, <<BaseLoc, MainLoc>>),
     CallDesc(Fn("Entry", "plain", WarnLevel), 0, Msg1, <<BaseLoc, MainLoc>>),
     CallDesc(Fn("Logger", "f", ErrorLevel), 0, Msg1, <<BaseLoc, MainLoc, WrapLoc>>)}

Init ==
    /\ InitLogger
    /\ Level = InfoLevel
    /\ Hooks = Registered(<<[kind |-> "add", levels |-> Levels],
                            [kind |-> "fail", levels |-> {ErrorLevel}]>>)
    /\ plan = [t \in Threads |-> Plan(NarrowCalls, {}, {}, TRUE, MaxOps)]

Emit(t) ==
    \/ Call(t) \/ FnEnter(t) \/ LogStamp(t) \/ FireHook(t) \/ LogLock(t)
    \/ DiagWrite(t) \/ LogGetBuffer(t) \/ LogFormat(t) \/ OutWriteBegin(t)
    \/ OutWriteEnd(t) \/ LogReturn(t) \/ FnLeave(t) \/ Finish(t)

Next == \E t \in Threads : Emit(t) \/ SetNoLock(t)

Spec == Init /\ [][Next]_vars


(***************************************************************************)
(* One emission call, of any entry point at any severity, under any        *)
(* threshold, while another goroutine changes the threshold.               *)
(***************************************************************************)
GateCalls ==
    {CallDesc(Fn(r, f, l), IF f \in {"Ex", "Exf"} THEN 1 ELSE 0, Msg1,
              <<BaseLoc, MainLoc, WrapLoc>>) :
        r \in Recvs, f \in Forms, l \in Levels}

GateHooks ==
    {Registered(<<>>),
     Registered(<<[kind |-> "ok", levels |-> {WarnLevel, InfoLevel}],
                  [kind |-> "fail", levels |-> {PanicLevel, ErrorLevel, InfoLevel}],
                  [kind |-> "add", levels |-> Levels]>>)}

InitCall ==
    /\ InitLogger
    /\ Level \in Levels
    /\ Hooks \in GateHooks
    /\ \E c \in GateCalls, l \in {PanicLevel, DebugLevel} :
          plan = [t \in Threads |->
                    IF t = 1 THEN Plan({c}, {}, {}, FALSE, MaxOps)
                    ELSE Plan({}, {}, {l}, FALSE, MaxOps)]

NextCall ==
    \E t \in Threads :
        Emit(t) \/ ExitCall(t) \/ SetLevelLock(t) \/ SetLevelStore(t)

SpecCall == InitCall /\ [][NextCall]_vars

(***************************************************************************)
(* One goroutine calling one entry point, from every call stack, with      *)
(* every depth and message.                                                *)
(***************************************************************************)
InitCaller ==
    /\ InitLogger
    /\ Level = DebugLevel
    /\ Hooks = NoHooks
    /\ \E c \in AllCalls :
          plan = [t \in Threads |->
                    IF t = 1 THEN Plan({c}, {}, {}, FALSE, MaxOps) ELSE NoPlan]

NextCaller == Emit(1) \/ ExitCall(1)

SpecCaller == InitCaller /\ [][NextCaller]_vars

(***************************************************************************)
(* Goroutines attaching fields.                                            *)
(***************************************************************************)
InitFields ==
    /\ InitLogger
    /\ Level = InfoLevel
    /\ Hooks = NoHooks
    /\ plan = [t \in Threads |-> Plan({}, Attachments, {}, FALSE, MaxOps)]

NextFields ==
    \E t \in Threads :
        EntryAttach(t) \/ LoggerAttachBegin(t) \/ LoggerAttachEnd(t)

SpecFields == InitFields /\ [][NextFields]_vars


(***************************************************************************)
(* Goroutines logging through the Logger and attaching fields through it,  *)
(* all of them users of the Entry pool.                                    *)
(***************************************************************************)
PoolCalls ==
    {CallDesc(Fn("Logger", "plain", InfoLevel), 0, Msg1, <<BaseLoc, MainLoc>>),
     CallDesc(Fn("Std", "f", WarnLevel), 0, Msg1, <<BaseLoc, MainLoc>>)}

PoolAttachments == {x \in Attachments : x.api # "WithFields"}

InitPool ==
    /\ InitLogger
    /\ Level = InfoLevel
    /\ Hooks = Registered(<<[kind |-> "add", levels |-> Levels]>>)
    /\ plan = [t \in Threads |-> Plan(PoolCalls, PoolAttachments, {}, FALSE, MaxOps)]

NextPool ==
    \E t \in Threads :
        Emit(t) \/ EntryAttach(t) \/ LoggerAttachBegin(t) \/ LoggerAttachEnd(t)

SpecPool == InitPool /\ [][NextPool]_vars


(***************************************************************************)
(* Goroutines logging under a fair scheduler, with a hook that itself logs *)
(* through the Logger and a hook that fails; the Formatter and the         *)
(* destination may fail as well.                                           *)
(***************************************************************************)
LiveCalls ==
    {CallDesc(Fn("Entry", "plain", WarnLevel), 0, Msg1, <<BaseLoc, MainLoc>>),
     CallDesc(Fn("Logger", "plain", FatalLevel), 0, Msg1, <<BaseLoc, MainLoc>>),
     CallDesc(Fn("Std", "f", PanicLevel), 0, Msg1, <<BaseLoc, MainLoc>>)}

InitLive ==
    /\ InitLogger
    /\ Level = InfoLevel
    /\ Hooks = Registered(<<[kind |-> "log", levels |-> Levels],
                            [kind |-> "fail", levels |-> {WarnLevel, PanicLevel}]>>)
    /\ plan = [t \in Threads |-> Plan(LiveCalls, {}, {}, FALSE, MaxOps)]

Step(t) == Emit(t) \/ HookLogLock(t) \/ HookLogWrite(t) \/ ExitCall(t)

NextLive == \E t \in Threads : Step(t)

\* the scheduler lets every goroutine that can take a step take one
SpecLive ==
    InitLive /\ [][NextLive]_vars /\ \A t \in Threads : WF_vars(Step(t))


(***************************************************************************)
(* Goroutines logging while the goroutine that built the Logger calls      *)
(* SetNoLock at any moment; a goroutine that finds the mutex taken waits   *)
(* inside Lock.                                                            *)
(***************************************************************************)
InitNoLock ==
    /\ InitLogger
    /\ Level = InfoLevel
    /\ Hooks = Registered(<<[kind |-> "add", levels |-> Levels],
                            [kind |-> "fail", levels |-> {ErrorLevel}]>>)
    /\ plan = [t \in Threads |-> Plan(NarrowCalls, {}, {}, FALSE, MaxOps)]

NextNoLock ==
    \/ \E t \in Threads : Emit(t) \/ LogLockWait(t)
    \/ SetNoLockMain

SpecNoLock == InitNoLock /\ [][NextNoLock]_vars


(***************************************************************************)
(* Properties.                                                             *)
(***************************************************************************)
\* the call of goroutine t is over: it has returned, raised, or ended the
\* process
Completed(t) == th[t].pc \in {"done", "raised", "exited"}
InCall(t) == th[t].pc \notin {"idle", "attach", "set"}
Severity(t) == th[t].call.fn.lvl

\* C1 as stated: a call at severity S fires hooks, runs the Formatter or
\* writes to the destination only if the threshold was at least S at some
\* moment of the call, and a call during which the threshold was at least S
\* throughout has done all three by the time it is over.
C1_AsStated ==
    \A t \in Threads : InCall(t) =>
        /\ (th[t].obs.fires > 0 \/ th[t].obs.ran # <<>> \/ th[t].obs.formats > 0
              \/ th[t].obs.writes > 0) => th[t].obs.maxT >= Severity(t)
        /\ (Completed(t) /\ th[t].obs.minT >= Severity(t)) =>
              (th[t].obs.fires > 0 /\ th[t].obs.formats > 0 /\ th[t].obs.writes > 0)

\* C1, amended: as stated, but the destination is written unless the
\* Formatter has returned a failure: a call during which the threshold was
\* at least S throughout has fired the hooks and run the Formatter, and has
\* written to the destination exactly when the Formatter succeeded; a call
\* during which the threshold was below S throughout has done none of the
\* three.
C1_Gating ==
    \A t \in Threads : InCall(t) =>
        /\ (th[t].obs.fires > 0 \/ th[t].obs.ran # <<>> \/ th[t].obs.formats > 0
              \/ th[t].obs.writes > 0) => th[t].obs.maxT >= Severity(t)
        /\ (Completed(t) /\ th[t].obs.minT >= Severity(t)) =>
              /\ th[t].obs.fires > 0
              /\ th[t].obs.formats > 0
              /\ (th[t].obs.writes > 0) = ~th[t].obs.fmtErr

\* threshold Info, a Warn call: hooks ran, the record was formatted and
\* written
C1_Witness ==
    \E t \in Threads :
        /\ th[t].pc = "done" /\ Severity(t) = WarnLevel
        /\ th[t].obs.minT = InfoLevel /\ th[t].obs.maxT = InfoLevel
        /\ th[t].obs.ran # <<>> /\ th[t].obs.formats = 1 /\ th[t].obs.writes = 1

\* C2: while the lock is enabled at most one goroutine is inside a write
\* to the destination or to the diagnostic stream, and every tail of a
\* record's bytes comes right after the head of the same record.
InWrite(t) == th[t].pc \in {"hd_write", "fd_write", "out_write", "out_write2"}

C2_Serialized ==
    ~mu.disabled =>
        /\ Cardinality({t \in Threads : InWrite(t)}) <= 1
        /\ \A i \in 1..Len(Out) :
              (Out[i].bytes.part = "tail" /\ i > 1) =>
                  (Out[i - 1].bytes.part = "head" /\ Out[i - 1].by = Out[i].by)

\* one goroutine is writing while another waits for the lock
C2_Witness ==
    /\ ~mu.disabled
    /\ \E t, u \in Threads :
          /\ th[t].pc = "out_write2"
          /\ th[u].pc \in {"hd_lock", "fd_lock", "out_lock"}

\* C3: a Fatal-family call that is over has invoked Exit, every time with
\* code 1; when the threshold excluded Fatal throughout the call nothing
\* was written; and Exit is never invoked while a dispatch of the call is
\* under way.
Fatal(t) == InCall(t) /\ Severity(t) = FatalLevel

C3_FatalExits ==
    \A t \in Threads : Fatal(t) =>
        /\ Completed(t) => th[t].obs.exits # <<>>
        /\ \A i \in 1..Len(th[t].obs.exits) : th[t].obs.exits[i] = 1
        /\ th[t].obs.maxT < FatalLevel => th[t].obs.writes = 0
        /\ ~th[t].obs.exitEarly
        /\ th[t].pc \in {"exit", "exited"} => (th[t].obs.resolved => th[t].obs.logged)

\* a Fatal call under a threshold that excludes Fatal: Exit(1), nothing
\* written
C3_Witness ==
    \E t \in Threads :
        /\ Fatal(t) /\ Completed(t) /\ th[t].obs.maxT < FatalLevel
        /\ th[t].obs.exits = <<1>> /\ th[t].obs.writes = 0 /\ th[t].obs.formats = 0

\* C4 as stated: a Panic or PanicEx call on an Entry or a Logger ends by
\* raising a signal whose payload is the formatted message.
PanicCall(t) ==
    /\ InCall(t) /\ Severity(t) = PanicLevel
    /\ th[t].call.fn.recv \in {"Entry", "Logger"}
    /\ th[t].call.fn.form \in {"plain", "Ex"}

C4_AsStated ==
    \A t \in Threads : (PanicCall(t) /\ Completed(t)) =>
        /\ th[t].pc = "raised"
        /\ th[t].obs.raised.kind = "msg"
        /\ th[t].obs.raised.msg = CallMessage(th[t].call)

\* C4, amended: a Panic or PanicEx call on an Entry or a Logger ends by
\* raising a signal, after the dispatch is over and whether or not the
\* record was written; the payload is the stamped Entry of the dispatch,
\* whose Message is the formatted message, not the message itself.
C4_PanicRaises ==
    \A t \in Threads : (PanicCall(t) /\ Completed(t)) =>
        /\ th[t].pc = "raised"
        /\ th[t].obs.logged /\ th[t].obs.formats = 1
        /\ th[t].obs.raised.kind = "entry"
        /\ th[t].obs.raised.entry.Message = CallMessage(th[t].call)
        /\ th[t].obs.raised.entry.Level = PanicLevel

\* a Logger.Panic whose record was not written: the signal is raised all
\* the same
C4_Witness ==
    \E t \in Threads :
        /\ PanicCall(t) /\ th[t].pc = "raised" /\ th[t].call.fn.recv = "Logger"
        /\ th[t].obs.writes = 0 /\ th[t].obs.fmtErr
        /\ th[t].obs.raised.kind = "entry"

\* C5: the map of an Entry reached from an Entry r by a chain of
\* attachments has the keys of r's map and of every attached map, and at
\* each key the value of the latest attachment that has the key, else r's;
\* it is the map one WithFields on r gives with the attached maps merged
\* right over left.
AttachedKeys(fs) == UNION {DOMAIN fs[i] : i \in 1..Len(fs)}
LatestWith(fs, k) ==
    CHOOSE i \in 1..Len(fs) :
        k \in DOMAIN fs[i] /\ \A j \in (i + 1)..Len(fs) : k \notin DOMAIN fs[j]
RightBiased(fs) == [k \in AttachedKeys(fs) |-> fs[LatestWith(fs, k)][k]]

C5_ChainIsUnion ==
    \A a \in records :
        LET m == maps[ent[a].Data]
            base == maps[ent[made[a].root].Data]
            fs == made[a].chain
            once == WithFields(maps, ent[made[a].root].Data, RightBiased(fs))
        IN  /\ DOMAIN m = (DOMAIN base) \cup AttachedKeys(fs)
            /\ \A k \in DOMAIN m :
                  m[k] = IF k \in AttachedKeys(fs)
                           THEN fs[LatestWith(fs, k)][k] ELSE base[k]
            /\ m = once.maps[once.data]

\* {a: 1} and then a = 2 on an Entry without fields gives {a: 2}
C5_Witness ==
    \E a \in records :
        /\ maps[ent[made[a].root].Data] = EmptyFields
        /\ made[a].chain = <<("a" :> 1), ("a" :> 2)>>
        /\ maps[ent[a].Data] = ("a" :> 2)

\* C6: a step that makes an Entry by WithField, WithFields or WithError
\* leaves every Entry there was, and its map, as they were, and the new
\* Entry's map is none of theirs.
C6_SourceUnchanged ==
    [][\A a \in HeapAddrs :
          /\ ent'[a] = ent[a]
          /\ maps'[ent[a].Data] = maps[ent[a].Data]
          /\ \A b \in records' \ records : ent'[b].Data # ent[a].Data]_vars

\* an Entry attached to twice: it and the ones derived from it have three
\* maps, and its own is as it was made
C6_Witness ==
    \E a, b \in records :
        /\ made[a].from = 1 /\ made[b].from = a
        /\ Cardinality({ent[1].Data, ent[a].Data, ent[b].Data}) = 3
        /\ maps[ent[1].Data] = EmptyFields
        /\ maps[ent[a].Data] = ("a" :> 1)
        /\ maps[ent[b].Data] = ("a" :> 2)

\* C7 as stated: when a hook has failed, the failing hook is the last one
\* of the firing that ran, the failure is reported once to the diagnostic
\* stream, and the dispatch has run the Formatter and written the record.
FailedAt(t) == th[t].obs.ran[Len(th[t].obs.ran)]
HookFailed(t) == InCall(t) /\ th[t].obs.hookErr
HookReports(t) == SelectSeq(th[t].obs.diags, LAMBDA d : d = "hook")

C7_AsStated ==
    \A t \in Threads : HookFailed(t) =>
        /\ Hooks[Severity(t)][FailedAt(t)] = "fail"
        /\ th[t].obs.ran = [i \in 1..FailedAt(t) |-> i]
        /\ th[t].obs.logged =>
              /\ Len(HookReports(t)) = 1
              /\ th[t].obs.formats = 1
              /\ th[t].obs.writes = 1

\* C7, amended: when a hook has failed, the failing hook is the last one
\* of the firing that ran, the failure is reported once to the diagnostic
\* stream, and the dispatch has run the Formatter and has written the
\* record unless the Formatter failed too.
C7_HookFailure ==
    \A t \in Threads : HookFailed(t) =>
        /\ Hooks[Severity(t)][FailedAt(t)] = "fail"
        /\ th[t].obs.ran = [i \in 1..FailedAt(t) |-> i]
        /\ th[t].obs.logged =>
              /\ Len(HookReports(t)) = 1
              /\ th[t].obs.formats = 1
              /\ (th[t].obs.writes = 1) = ~th[t].obs.fmtErr

\* a hook failed with a hook registered after it: the later hook did not
\* run, the record was written
C7_Witness ==
    \E t \in Threads :
        /\ HookFailed(t) /\ th[t].obs.logged
        /\ FailedAt(t) < Len(Hooks[Severity(t)])
        /\ th[t].obs.diags = <<"hook">>
        /\ th[t].obs.formats = 1 /\ th[t].obs.writes = 1

\* C8: the head of every record written carries the severity and the
\* message of the call that wrote it, and no Entry on the heap, shared or
\* not, has its Time, Level, Message, FileName, Line or Buffer changed from
\* the zero values it was made with.
C8_OwnCopy ==
    /\ \A i \in 1..Len(Out) :
          Out[i].bytes.part = "head" =>
              (Out[i].bytes.level = Out[i].lvl /\ Out[i].bytes.msg = Out[i].msg)
    /\ \A a \in HeapAddrs :
          ent[a] = [EntryStruct(ent[a].Data) EXCEPT !.Data = ent[a].Data]

\* two goroutines inside log through the same Entry at different
\* severities, one of them writing
C8_Witness ==
    \E t, u \in Threads :
        /\ th[t].call.rcv # 0 /\ th[t].call.rcv = th[u].call.rcv
        /\ th[t].me # 0 /\ th[u].me # 0
        /\ Severity(t) # Severity(u)
        /\ th[t].pc = "out_write2" /\ th[u].pc \in {"fire", "format", "out_lock"}

\* C9: the frame log resolves for a call is the one d frames above the
\* caller of the entry point, d being the depth given to an Ex or Exf form
\* and 0 for the others; when the stack has no such frame the lookup
\* fails.
C9_CallerFrame ==
    \A t \in Threads : (InCall(t) /\ th[t].obs.resolved) =>
        LET c == th[t].call
            d == IF c.fn.form \in {"Ex", "Exf"} THEN c.depth ELSE 0
            want == Len(c.ustack) - d
        IN  IF want >= 1
              THEN /\ th[t].obs.caller.ok
                   /\ th[t].obs.caller.idx = want
                   /\ th[t].obs.caller.file = c.ustack[want].file
                   /\ th[t].obs.caller.line = c.ustack[want].line
              ELSE ~th[t].obs.caller.ok

\* a wrapper that passes depth 1 to the free InfoExf: the frame is the
\* wrapper's caller
C9_Witness ==
    \E t \in Threads :
        /\ th[t].obs.resolved
        /\ th[t].call.fn = Fn("Std", "Exf", InfoLevel) /\ th[t].call.depth = 1
        /\ th[t].call.ustack = <<BaseLoc, MainLoc, WrapLoc>>
        /\ th[t].obs.caller.file = MainLoc.file
        /\ th[t].obs.caller.line = MainLoc.line

\* C10: an Entry a call has taken from the pool has, before any hook of
\* the call has run, an empty map and no buffer.
TakenFromPool(t) ==
    {th[t].stack[i].pooled : i \in 1..Len(th[t].stack)} \ {0}

C10_PooledClean ==
    \A t \in Threads :
        (InCall(t) /\ th[t].obs.ran = <<>>) =>
            \A e \in TakenFromPool(t) :
                maps[ent[e].Data] = EmptyFields /\ ent[e].Buffer = 0

\* C11: an Entry the program holds, among them every one returned by
\* Logger.WithField, WithFields or WithError and their package mirrors, is
\* never in the pool nor held as a pooled Entry by a call, and its map is
\* not the map of an Entry that is; an Entry a call holds from the pool is
\* not in the pool and is held by no other call.
HeldByCall(t) == TakenFromPool(t) \cup ({th[t].held} \ {0})
Pooled == entryPool \cup UNION {HeldByCall(t) : t \in Threads}

C11_NoEscape ==
    /\ \A a \in records :
          /\ a \notin Pooled
          /\ \A e \in Pooled : ent[e].Data # ent[a].Data
    /\ \A t \in Threads :
          /\ HeldByCall(t) \cap entryPool = {}
          /\ \A u \in Threads \ {t} : HeldByCall(t) \cap HeldByCall(u) = {}

\* an Entry returned by Logger.WithField is in the program's hands, the
\* scratch Entry it came from is back in the pool, and a call now holds
\* that scratch Entry for a dispatch
C11_Witness ==
    \E a \in records, t \in Threads :
        /\ made[a].from \notin records
        /\ made[a].from \in TakenFromPool(t)
        /\ th[t].pc = "fire"

\* C12: while the lock is enabled, a goroutine that has taken it is inside
\* the write of a diagnostic or of the formatted bytes: never in a hook,
\* at the buffer pool or in the Formatter, and never outside log.
Holds(t) == mu.locked /\ mu.owner = t

C12_LockScope ==
    ~mu.disabled =>
        \A t \in Threads :
            Holds(t) => th[t].pc \in {"hd_write", "fd_write", "out_write", "out_write2"}

\* one goroutine between two hooks while the other is in the Formatter,
\* the lock free
C12_Witness ==
    \E t, u \in Threads :
        /\ ~mu.disabled /\ ~mu.locked
        /\ th[t].pc = "fire" /\ th[t].obs.ran # <<>> /\ th[t].hi <= Len(th[t].hooks)
        /\ th[u].pc = "format"

\* C13: the threshold changes only in a step of a goroutine that is inside
\* SetLevel with the lock taken, and no goroutine reads the threshold (the
\* guard of an entry point), the hook registry (Hooks.Fire) or the
\* Formatter while another is inside a setter, between its Lock and its
\* Unlock.
InSetter(u) == th[u].pc = "set"
ReadsLevel(t) ==
    /\ th[t].pc = "gate" /\ Gated(Top(t).fn)
    /\ (th'[t].pc # "gate" \/ th'[t].stack # th[t].stack)
ReadsHooks(t) == th[t].pc = "log" /\ th'[t].pc = "fire"
ReadsFormatter(t) == th[t].pc = "format" /\ th'[t].pc # "format"

C13_SettersSerialized ==
    [][/\ Level' # Level => \E u \in Threads : InSetter(u) /\ Holds(u)
       /\ \A t \in Threads :
             (ReadsLevel(t) \/ ReadsHooks(t) \/ ReadsFormatter(t)) =>
                 \A u \in Threads : ~InSetter(u)]_vars

\* C14: when an emission call is over, by return (for the Fatal family
\* after an Exit that returned) or by the signal it raised, every Entry it
\* took from the pool is in the pool again.
Ended(t) == th[t].pc \in {"done", "raised"}

C14_AllReturned ==
    \A t \in Threads : Ended(t) => th[t].obs.taken \subseteq entryPool

\* C15: in a call, through whatever chain of entry points, Hooks.Fire has
\* returned before the Formatter is invoked and the Formatter has returned
\* before the destination is written, and each of the three happens at
\* most once.
C15_OnceInOrder ==
    \A t \in Threads : InCall(t) =>
        /\ th[t].obs.fires <= 1 /\ th[t].obs.formats <= 1 /\ th[t].obs.writes <= 1
        /\ th[t].obs.formats > 0 => th[t].obs.fires = 1
        /\ th[t].obs.writes > 0 => th[t].obs.formats = 1
        /\ th[t].pc \in {"fire", "hd_lock", "hd_write"} =>
              (th[t].obs.formats = 0 /\ th[t].obs.writes = 0)
        /\ th[t].pc \in {"getbuf", "format"} => th[t].obs.writes = 0

\* the package's Fatalf, through Logger.Fatalf, Entry.FatalExf and
\* Entry.FatalEx, every Exit returning: one firing with hooks, one
\* formatting, one write
C15_Witness ==
    \E t \in Threads :
        /\ th[t].pc = "done" /\ th[t].call.fn = Fn("Std", "f", FatalLevel)
        /\ Len(th[t].obs.exits) >= 2
        /\ th[t].obs.fires = 1 /\ th[t].obs.formats = 1 /\ th[t].obs.writes = 1

\* C16: once the Formatter has returned an error, the call writes nothing
\* to the destination; the goroutine holds the lock while it writes the
\* report; after the report, written once, it holds the lock no more; and
\* the call ends as it would have: by the signal at Panic severity, with
\* Exit at Fatal severity, by a plain return otherwise.
FormatFailed(t) == InCall(t) /\ th[t].obs.fmtErr
FormatReports(t) == SelectSeq(th[t].obs.diags, LAMBDA d : d = "format")

C16_FormatFailure ==
    \A t \in Threads : FormatFailed(t) =>
        /\ th[t].obs.writes = 0
        /\ th[t].pc = "fd_write" => Holds(t)
        /\ th[t].pc \notin {"fd_lock", "fd_write"} =>
              (Len(FormatReports(t)) = 1 /\ ~Holds(t))
        /\ Completed(t) =>
              CASE Severity(t) = PanicLevel -> th[t].pc = "raised"
                [] Severity(t) = FatalLevel ->
                      th[t].obs.exits # <<>> /\ th[t].pc \in {"done", "exited"}
                [] OTHER -> th[t].pc = "done" /\ th[t].obs.exits = <<>>

\* an Info call whose Formatter failed has returned: one report, nothing
\* written
C16_Witness ==
    \E t \in Threads :
        /\ FormatFailed(t) /\ th[t].pc = "done" /\ Severity(t) = InfoLevel
        /\ FormatReports(t) = <<"format">> /\ th[t].obs.writes = 0
        /\ ~mu.locked

\* C17: a buffer a dispatch holds is not in the pool; every buffer there
\* is is in the pool or held by a dispatch that is under way, so a
\* dispatch that is over, however it went, has put its buffer back; and
\* from the return of the Formatter on the Entry of the dispatch has no
\* buffer, so that no Entry ever refers to a buffer that is in the pool.
BuffersHeld == {th[t].buffer : t \in Threads} \ {0}

C17_BufferReturned ==
    /\ BuffersHeld \cap bufferPool = {}
    /\ BuffersHeld \cup bufferPool = 1..nbuf
    /\ \A t \in Threads :
          /\ th[t].obs.logged => th[t].buffer = 0
          /\ (th[t].me # 0 /\ th[t].obs.formats > 0) => ent[th[t].me].Buffer = 0
          /\ th[t].pc = "raised" => th[t].obs.raised.entry.Buffer = 0
    /\ \A a \in DOMAIN ent : ent[a].Buffer # 0 => ent[a].Buffer \notin bufferPool

\* a Panic dispatch whose write failed has raised its signal: the one
\* buffer there is is back in the pool
C17_Witness ==
    \E t \in Threads :
        /\ th[t].pc = "raised" /\ th[t].obs.diags = <<"write">>
        /\ nbuf = 1 /\ bufferPool = {1}

\* C18: a dispatch at Panic severity ends by raising a signal that carries
\* the Entry it stamped (the severity, the time and the message of the
\* call); when the signal is raised the write or the report of the
\* Formatter's failure is over and the goroutine does not hold the lock;
\* a call at any other severity raises nothing.
C18_PanicDispatch ==
    \A t \in Threads : InCall(t) =>
        /\ (th[t].obs.logged /\ Severity(t) = PanicLevel) =>
              /\ th[t].pc = "raised"
              /\ th[t].obs.raised.kind = "entry"
              /\ th[t].obs.raised.entry.Level = PanicLevel
              /\ th[t].obs.raised.entry.Time = NowUTC
              /\ th[t].obs.raised.entry.Message = CallMessage(th[t].call)
        /\ th[t].pc = "raised" =>
              /\ th[t].obs.logged
              /\ th[t].obs.writes = 1 \/ FormatReports(t) = <<"format">>
              /\ ~Holds(t)
        /\ Severity(t) # PanicLevel =>
              (th[t].pc # "raised" /\ th[t].obs.raised = NoObs.raised)

\* the package's Panicf has raised its signal after the record was
\* written, the lock free again
C18_Witness ==
    \E t \in Threads :
        /\ th[t].pc = "raised" /\ th[t].call.fn = Fn("Std", "f", PanicLevel)
        /\ th[t].obs.writes = 1 /\ Out # <<>> /\ ~mu.locked
        /\ th[t].obs.raised.entry.Message = "x=1"

\* C19: once log has looked the caller up, the Entry it works on has as
\* FileName the base name of the file found (what follows the last "/",
\* the whole path when there is none) and as Line the line found; when
\* the lookup failed FileName is "???" and Line is 1.
Slashes(file) == {i \in 1..Len(file) : file[i] = "/"}
BaseName(file) ==
    IF Slashes(file) = {} THEN file
    ELSE SubSeq(file, (CHOOSE i \in Slashes(file) : \A j \in Slashes(file) : j <= i) + 1,
                Len(file))

C19_BaseName ==
    \A t \in Threads : (th[t].me # 0 /\ th[t].obs.resolved) =>
        LET c == th[t].obs.caller
            e == ent[th[t].me]
        IN  IF c.ok
              THEN e.FileName = BaseName(c.file) /\ e.Line = c.line
              ELSE e.FileName = <<"???">> /\ e.Line = 1

\* C20: under a fair scheduler every call that has begun comes to its end
\* (it returns, raises, or Exit ends the process), unless the process has
\* been ended by another goroutine first; a call that is over does not
\* hold the lock, and when no call is under way in a live process the
\* lock is free.  This with hooks that fail, a Formatter and a destination
\* that fail, and a hook that logs through the same Logger.
Quiet == \A t \in Threads : ~InCall(t) \/ Completed(t)

C20_NoDeadlock ==
    /\ \A t \in Threads : InCall(t) ~> (Completed(t) \/ ~alive)
    /\ [](\A t \in Threads : Completed(t) => ~Holds(t))
    /\ []((Quiet /\ alive) => ~mu.locked)

\* a call has returned after its hook logged a record of its own, a later
\* hook failed and the write failed: the lock is free
C20_Witness ==
    \E t \in Threads :
        /\ th[t].pc = "done" /\ th[t].obs.diags = <<"hook", "write">>
        /\ \E i \in 1..Len(Out) : Out[i].bytes.part = "hook" /\ Out[i].by = t
        /\ ~mu.locked


\* C21: under every interleaving of SetNoLock with concurrent calls no
\* goroutine unlocks a mutex that is not held and no goroutine waits forever
\* inside Lock: here, no goroutine waits inside Lock on a mutex that is
\* taken while the lock is disabled (every later Unlock is skipped, so the
\* mutex is never released).  The code violates this: a goroutine that read
\* disabled as false and found the mutex taken waits inside lock.Lock();
\* SetNoLock then makes the holder skip its Unlock.
BlockedForever(t) == t \in mu.waiters /\ mu.locked /\ mu.disabled

C21_NoLockSafe ==
    /\ ~mu.fault
    /\ \A t \in Threads : ~BlockedForever(t)

\* a mutex that is taken while the lock is disabled stays taken, and the
\* goroutines waiting for it keep waiting
C21_StaysTaken ==
    [][(mu.locked /\ mu.disabled) =>
          (mu'.locked /\ mu'.disabled /\ mu'.waiters = mu.waiters)]_vars

\* once SetNoLock has taken effect the only goroutines that acquire the
\* mutex are those that were already waiting inside Lock
C21_NoLaterAcquire ==
    [][(mu.disabled /\ mu'.locked /\ (~mu.locked \/ mu'.owner # mu.owner)) =>
          mu'.owner \in mu.waiters]_vars

\* after SetNoLock two goroutines are inside a destination write at once
C21_ConcurrentWrites ==
    /\ mu.disabled
    /\ \A t \in Threads : th[t].pc \in {"out_write", "out_write2"}

\* no goroutine ever unlocks a mutex that is not held
C21_NoFault == ~mu.fault


\* C22: a render buffer is held by at most one dispatch at a time, and a
\* dispatch that has its buffer filled keeps it, out of the pool, until it
\* has written the bytes to the destination or reported the Formatter's
\* failure: the buffer is put back only at the end of log.
Rendering(t) ==
    th[t].pc \in {"format", "out_lock", "out_write", "out_write2",
                  "fd_lock", "fd_write", "log_ret"}

C22_BufferExclusive ==
    /\ \A t, u \in Threads :
          (t # u /\ th[t].buffer # 0) => th[t].buffer # th[u].buffer
    /\ \A t \in Threads :
          /\ th[t].buffer # 0 => th[t].buffer \notin bufferPool
          /\ Rendering(t) => th[t].buffer # 0
          /\ th[t].buffer # 0 => Rendering(t)

\* a buffer enters the pool only in the step that ends a log whose write,
\* or report of the Formatter's failure, is done
C22_PutAfterWrite ==
    [][\A b \in bufferPool' \ bufferPool :
          \E t \in Threads : th[t].buffer = b /\ th[t].pc = "log_ret"]_vars

\* one dispatch is half way through its write while another has its own
\* buffer with the Formatter
C22_Witness ==
    /\ th[1].pc = "out_write2" /\ th[2].pc = "format"
    /\ th[1].buffer # 0 /\ th[2].buffer # 0 /\ th[1].buffer # th[2].buffer
    /\ nbuf = 2

=============================================================================
